---------------------------- MODULE Spec2Model ----------------------------
(***************************************************************************)
(* ApexPocket firmware (hardware/apexpocket/src/main.cpp): the affective   *)
(* core ("soul"), the button handling of handleButtons(), the mode         *)
(* switching it drives, the Village HTTP calls and the persistence of the  *)
(* soul, as one state machine.                                             *)
(*                                                                         *)
(* Numbers.  The floats E and E_floor are held as integers in units of     *)
(* 10^-7 (FP), every float product truncated to that unit.  Care values    *)
(* and totalCare are held in units of 10^-1 (CU).  A product whose         *)
(* magnitude exceeds MAX_E is held as MAX_E: every such product is an      *)
(* increment of E, which lines 476-477 clamp to [E_floor, MAX_E].          *)
(*                                                                         *)
(* Time.  clock is millis().  loop() ends in delay(16); an HTTP call and   *)
(* connectWiFi() block for a duration drawn from a small set.  One loop()  *)
(* iteration is one step (Loop); a run of iterations that change nothing   *)
(* but the clock is taken in one step (IdleIterations).  The buttons and   *)
(* the serial line change between two iterations: a change during a       *)
(* blocking call is seen by the program as a change just after it.         *)
(*                                                                         *)
(* Not modelled: the drawing of the screen, the blink animation, the LED   *)
(* and the serial log (needsRedraw, isBlinking, blinkFrame, lastBlink);    *)
(* the wrap of millis() after 2^32 ms; a power cut in the middle of a      *)
(* write of /soul.json.  The text of /soul.json is written and read by     *)
(* ArduinoJson, which is not part of the sources: the values read back are *)
(* taken to be the values written.                                         *)
(***************************************************************************)
EXTENDS Integers, Sequences, FiniteSets, TLC

FP == 10^7          \* integer units per 1.0 of E and E_floor
CU == 10^1          \* integer units per 1.0 of a care value

\* ---------------------------------------------------------------- constants
BETA_BASE == 80000
FLOOR_RATE == 1000
MAX_E == 1000000000
INITIAL_E == 10000000
INITIAL_FLOOR == 10000000

E_THRESHOLD_GUARDED == 5000000
E_THRESHOLD_TENDER == 10000000
E_THRESHOLD_WARM == 20000000
E_THRESHOLD_FLOURISHING == 50000000
E_THRESHOLD_RADIANT == 120000000
E_THRESHOLD_TRANSCENDENT == 300000000

DEBOUNCE_MS == 50
LONG_PRESS_MS == 800
COMBO_MS == 1000
SAVE_INTERVAL_MS == 60000
WIFI_RETRY_MS == 30000
API_TIMEOUT_MS == 10000
CARE_TIMEOUT_MS == 3000
SYNC_TIMEOUT_MS == 5000
STATUS_TIMEOUT_MS == 3000
LOOP_DELAY_MS == 16
LOVE_DELAY_MS == 50
SETUP_DELAY_MS == 100
WAKE_ANIM_MS == 1050
WIFI_SETTLE_MS == 100
WIFI_POLL_MS == 500
WIFI_GIVEUP_MS == 10000
NUM_AGENTS == 5

LOVE_CARE == 15     \* applyCare(1.5f)
POKE_CARE == 5      \* applyCare(0.5f)
DEFAULT_CARE == 5   \* respDoc["care_value"] | 0.5f

\* ------------------------------------------------------------------- bounds
MaxClock == 61000         \* no loop() iteration starts after this time
MaxInputClock == 20000    \* the user does nothing after this time
MaxInteractions == 2      \* no loop() iteration starts with more interactions
MaxEvents == 4            \* button presses and releases, serial lines, power cycles
MaxLines == 1             \* serial lines among them
MaxBoots == 1             \* power cycles among them
IdleRun == 4000           \* longest run of idle loop() iterations taken at once
RegularTickMs == 100      \* a loop() iteration longer than this is a late tick
HttpFastMs == 32          \* duration of an HTTP exchange that is answered

\* --------------------------------------------------------------- arithmetic
Abs(x) == IF x < 0 THEN -x ELSE x
Sgn(x) == IF x < 0 THEN -1 ELSE 1
\* F applied to the value of v: statement `x = v; ... F(x)`
Then(v, F(_)) == CHOOSE y \in { F(x) : x \in {v} } : TRUE

Min(a, b) == IF a < b THEN a ELSE b
Max(a, b) == IF a > b THEN a ELSE b

SatAdd(x, y) == IF x > MAX_E - y THEN MAX_E ELSE x + y

\* floor(al * bl / FP) for 0 <= al, bl < FP, without a 32-bit overflow
LowMul(al, bl) ==
    LET x1 == al \div 10000
        x0 == al % 10000
        y1 == bl \div 10000
        y0 == bl % 10000
        m  == x1 * y0 + x0 * y1
        q  == x0 * y0
    IN  x1 * y1 * 10 + (m + q \div 10000) \div 1000

\* min(MAX_E, floor(a * b / FP)) for 0 <= a, b <= MAX_E
MagMul(a, b) ==
    LET bh == b \div FP
        bl == b % FP
        ah == a \div FP
        al == a % FP
    IN  IF bh > 0 /\ a > MAX_E \div bh
        THEN MAX_E
        ELSE SatAdd(SatAdd(a * bh, ah * bl), LowMul(al, bl))

\* float * float, both in FP units
FMul(a, b) == Sgn(a) * Sgn(b) * MagMul(Abs(a), Abs(b))

\* min(MAX_E, floor(a * n / CU)) for 0 <= a <= MAX_E, n >= 0 in CU units
MagScale(a, n) ==
    LET ah == a \div CU
        al == a % CU
    IN  IF n > 0 /\ ah > MAX_E \div n
        THEN MAX_E
        ELSE SatAdd(ah * n, (al * n) \div CU)

\* float (FP units) * float (CU units), in FP units
FScale(a, n) == Sgn(a) * Sgn(n) * MagScale(Abs(a), Abs(n))


\* -------------------------------------------------------------------- enums
STATE_PROTECTING == 0
STATE_GUARDED == 1
STATE_TENDER == 2
STATE_WARM == 3
STATE_FLOURISHING == 4
STATE_RADIANT == 5
STATE_TRANSCENDENT == 6

AppMode == {"MODE_FACE", "MODE_STATUS", "MODE_AGENTS", "MODE_CHAT", "MODE_SYNC"}

NoFile == [exists |-> FALSE]

\* -------------------------------------------------------------------- state
VARIABLES
    E, E_floor, interactions, totalCare, birthTime,      \* soul
    currentAgentIndex, currentMode, currentExpr,
    messageText, messageExpires,
    btnA_pressed, btnB_pressed, btnA_pressTime, btnB_pressTime,
    btnA_longTriggered, btnB_longTriggered, lastDebounce,
    wifiConnected, villageOnline, lastWifiAttempt, toolsAvailable,
    lastSave,
    file,        \* /soul.json on LittleFS
    clock,       \* millis()
    pinA, pinB,  \* TRUE while the button is held down (digitalRead is LOW)
    pc,          \* "boot": before setup(); "loop": between two loop() calls
    serialIn,    \* a line is waiting in the serial buffer (Serial.available())
    emitted,     \* what the last handleButtons() call did, in order
    sent,        \* the HTTP requests of the last step, in order
    hist         \* per-hold bookkeeping of the buttons (observation only)

vars == << E, E_floor, interactions, totalCare, birthTime, currentAgentIndex,
           currentMode, currentExpr, messageText, messageExpires, btnA_pressed,
           btnB_pressed, btnA_pressTime, btnB_pressTime, btnA_longTriggered,
           btnB_longTriggered, lastDebounce, wifiConnected, villageOnline,
           lastWifiAttempt, toolsAvailable, lastSave, file, clock, pinA, pinB,
           pc, serialIn, emitted, sent, hist >>

\* The program's globals and its clock as one record, threaded through the
\* operators below in the order the statements run.
Cur ==
    [ E |-> E, E_floor |-> E_floor, interactions |-> interactions,
      totalCare |-> totalCare, birthTime |-> birthTime,
      currentAgentIndex |-> currentAgentIndex, currentMode |-> currentMode,
      currentExpr |-> currentExpr, messageText |-> messageText,
      messageExpires |-> messageExpires, btnA_pressed |-> btnA_pressed,
      btnB_pressed |-> btnB_pressed, btnA_pressTime |-> btnA_pressTime,
      btnB_pressTime |-> btnB_pressTime,
      btnA_longTriggered |-> btnA_longTriggered,
      btnB_longTriggered |-> btnB_longTriggered, lastDebounce |-> lastDebounce,
      wifiConnected |-> wifiConnected, villageOnline |-> villageOnline,
      lastWifiAttempt |-> lastWifiAttempt, toolsAvailable |-> toolsAvailable,
      lastSave |-> lastSave, file |-> file, clock |-> clock,
      emitted |-> emitted, sent |-> sent, hist |-> hist ]

Commit(r) ==
    /\ E' = r.E
    /\ E_floor' = r.E_floor
    /\ interactions' = r.interactions
    /\ totalCare' = r.totalCare
    /\ birthTime' = r.birthTime
    /\ currentAgentIndex' = r.currentAgentIndex
    /\ currentMode' = r.currentMode
    /\ currentExpr' = r.currentExpr
    /\ messageText' = r.messageText
    /\ messageExpires' = r.messageExpires
    /\ btnA_pressed' = r.btnA_pressed
    /\ btnB_pressed' = r.btnB_pressed
    /\ btnA_pressTime' = r.btnA_pressTime
    /\ btnB_pressTime' = r.btnB_pressTime
    /\ btnA_longTriggered' = r.btnA_longTriggered
    /\ btnB_longTriggered' = r.btnB_longTriggered
    /\ lastDebounce' = r.lastDebounce
    /\ wifiConnected' = r.wifiConnected
    /\ villageOnline' = r.villageOnline
    /\ lastWifiAttempt' = r.lastWifiAttempt
    /\ toolsAvailable' = r.toolsAvailable
    /\ lastSave' = r.lastSave
    /\ file' = r.file
    /\ clock' = r.clock
    /\ emitted' = r.emitted
    /\ sent' = r.sent
    /\ hist' = r.hist

\* ----------------------------------------------------------- soul functions
\* ClampE without `E = max(E_floor, E)`
ClampE_NoFloor(floor, e) == Min(MAX_E, e)

\* ClampE with `E = max(0.0f, E)` for `E = max(E_floor, E)`
ClampE_AtZero(floor, e) == Max(0, Min(MAX_E, e))

\* E = min(MAX_E, E); E = max(E_floor, E);
ClampE(floor, e) == Max(floor, Min(MAX_E, e))

\* RatchetFloor with the sign of floorDelta turned
RatchetFloor_Down(floor, e, dt) ==
    IF e > floor
    THEN floor - FScale(FMul(e - floor, FLOOR_RATE), dt)
    ELSE floor

\* if (E > E_floor) { floorDelta = ...; E_floor = min(E, E_floor + floorDelta); }
RatchetFloor(floor, e, dt) ==
    IF e > floor
    THEN LET floorDelta == FScale(FMul(e - floor, FLOOR_RATE), dt)
         IN  Min(e, floor + floorDelta)
    ELSE floor

\* AddCare without `if (care > 0)`
AddCare_Always(total, care) == total + care

\* if (care > 0) totalCare += care;
AddCare(total, care) == IF care > 0 THEN total + care ELSE total

\* updateSoul with `beta = BETA_BASE`, without the factor (1 + E / 10)
updateSoul_FlatRate(r, care, damage, dt) ==
    IF dt <= 0 THEN r
    ELSE LET beta == BETA_BASE
             dE   == FScale(FMul(FScale(beta, care - damage), r.E), dt)
         IN  Then(ClampE(r.E_floor, r.E + dE), LAMBDA e :
             [r EXCEPT !.E = e,
                       !.E_floor = RatchetFloor(r.E_floor, e, dt),
                       !.totalCare = AddCare(r.totalCare, care)])

\* care, damage and dt in CU units
updateSoul(r, care, damage, dt) ==
    IF dt <= 0 THEN r
    ELSE LET beta == FMul(BETA_BASE, FP + r.E \div 10)
             dE   == FScale(FMul(FScale(beta, care - damage), r.E), dt)
         IN  Then(ClampE(r.E_floor, r.E + dE), LAMBDA e :
             [r EXCEPT !.E = e,
                       !.E_floor = RatchetFloor(r.E_floor, e, dt),
                       !.totalCare = AddCare(r.totalCare, care)])

\* getState with `>=` for `>`
getState_Inclusive(e) ==
    IF e >= E_THRESHOLD_TRANSCENDENT THEN STATE_TRANSCENDENT
    ELSE IF e >= E_THRESHOLD_RADIANT THEN STATE_RADIANT
    ELSE IF e >= E_THRESHOLD_FLOURISHING THEN STATE_FLOURISHING
    ELSE IF e >= E_THRESHOLD_WARM THEN STATE_WARM
    ELSE IF e >= E_THRESHOLD_TENDER THEN STATE_TENDER
    ELSE IF e >= E_THRESHOLD_GUARDED THEN STATE_GUARDED
    ELSE STATE_PROTECTING

getState(e) ==
    IF e > E_THRESHOLD_TRANSCENDENT THEN STATE_TRANSCENDENT
    ELSE IF e > E_THRESHOLD_RADIANT THEN STATE_RADIANT
    ELSE IF e > E_THRESHOLD_FLOURISHING THEN STATE_FLOURISHING
    ELSE IF e > E_THRESHOLD_WARM THEN STATE_WARM
    ELSE IF e > E_THRESHOLD_TENDER THEN STATE_TENDER
    ELSE IF e > E_THRESHOLD_GUARDED THEN STATE_GUARDED
    ELSE STATE_PROTECTING

stateToExpression(state) ==
    CASE state = STATE_PROTECTING   -> "EXPR_SLEEPING"
      [] state = STATE_GUARDED      -> "EXPR_SAD"
      [] state = STATE_TENDER       -> "EXPR_CURIOUS"
      [] state = STATE_WARM         -> "EXPR_NEUTRAL"
      [] state = STATE_FLOURISHING  -> "EXPR_HAPPY"
      [] state = STATE_RADIANT      -> "EXPR_EXCITED"
      [] state = STATE_TRANSCENDENT -> "EXPR_LOVE"
      [] OTHER                      -> "EXPR_NEUTRAL"

stringToExpression(expr) ==
    IF expr \in {"LOVE", "HAPPY", "EXCITED", "SAD", "SLEEPY", "SLEEPING",
                 "CURIOUS", "SURPRISED", "THINKING", "CONFUSED"}
    THEN "EXPR_" \o expr
    ELSE "EXPR_NEUTRAL"

stateName(state) ==
    CASE state = STATE_PROTECTING   -> "PROTECT"
      [] state = STATE_GUARDED      -> "GUARDED"
      [] state = STATE_TENDER       -> "TENDER"
      [] state = STATE_WARM         -> "WARM"
      [] state = STATE_FLOURISHING  -> "FLOURISH"
      [] state = STATE_RADIANT      -> "RADIANT"
      [] state = STATE_TRANSCENDENT -> "TRANSCEND"
      [] OTHER                      -> "???"

\* interactions++ (line 488)
CountInteraction(n) == n + 1

applyCare(r, intensity) ==
    Then(updateSoul([r EXCEPT !.interactions = CountInteraction(@),
                              !.hist.cared = Append(@, intensity),
                              !.hist.order = Append(@, "applyCare")], intensity, 0, CU),
         LAMBDA r2 : [r2 EXCEPT !.currentExpr = stateToExpression(getState(r2.E))])

showMessage(r, msg, durationMs) ==
    [r EXCEPT !.messageText = msg, !.messageExpires = r.clock + durationMs]

\* delay(ms), and the time a blocking call takes
delay(r, ms) == [r EXCEPT !.clock = @ + ms]


\* -------------------------------------------------------------- environment
\* What an HTTP exchange can come to: answered with 200, or no answer within
\* the timeout set on the client (HTTPC_ERROR_READ_TIMEOUT).  The code treats
\* every result other than 200 alike.
HTTP_OK == 200

Outcomes(timeoutMs) ==
    { [code |-> HTTP_OK, dur |-> HttpFastMs],
      [code |-> -11, dur |-> timeoutMs] }

NoCall == [code |-> 0, dur |-> 0]

\* A field of a JSON response is <<>> when absent and <<value>> when present.
\* care_value is in CU units.
ChatFields ==
    { << <<>>, <<"GRUMPY">> >>, << <<-10>>, <<"SAD">> >>, << <<120000>>, <<>> >> }

ChatReplies ==
    { [code |-> HTTP_OK, dur |-> HttpFastMs, care |-> f[1], expr |-> f[2]] :
        f \in ChatFields }
    \cup { [code |-> -11, dur |-> API_TIMEOUT_MS, care |-> <<>>, expr |-> <<>>],
           [code |-> 500, dur |-> HttpFastMs, care |-> <<>>, expr |-> <<>>] }

NoChat == [code |-> 0, dur |-> 0, care |-> <<>>, expr |-> <<>>]

StatusFields == { << <<TRUE>>, <<129>> >> }

StatusReplies ==
    { [code |-> HTTP_OK, dur |-> HttpFastMs, online |-> f[1], tools |-> f[2]] :
        f \in StatusFields }
    \cup { [code |-> -11, dur |-> STATUS_TIMEOUT_MS, online |-> <<>>, tools |-> <<>>] }

NoStatus == [code |-> 0, dur |-> 0, online |-> <<>>, tools |-> <<>>]

\* WiFi.status() becomes WL_CONNECTED after `polls` delays of 500 ms, or not
\* before the last loop() iteration has started
WifiResults ==
    { [ok |-> TRUE, polls |-> 1],
      [ok |-> FALSE, polls |-> MaxClock \div WIFI_POLL_MS + 1] }

Send(r, what) ==
    [r EXCEPT !.sent = Append(@, what), !.hist.order = Append(@, what)]

\* ------------------------------------------------------------- village API
\* connectWiFi without `(millis() - start) < 10000`
connectWiFi_NoGiveUp(r, w) ==
    LET r1 == [r EXCEPT !.lastWifiAttempt = r.clock]
        r2 == delay(r1, WIFI_SETTLE_MS)
        r3 == delay(r2, w.polls * WIFI_POLL_MS)
    IN  [r3 EXCEPT !.wifiConnected = w.ok,
                   !.hist.wifi = IF w.ok THEN "connected" ELSE "failed"]

connectWiFi(r, w) ==
    LET r1 == [r EXCEPT !.lastWifiAttempt = r.clock]
        r2 == delay(r1, WIFI_SETTLE_MS)
        \* while (WiFi.status() != WL_CONNECTED && millis() - start < 10000) delay(500);
        n  == Min(w.polls, WIFI_GIVEUP_MS \div WIFI_POLL_MS)
        r3 == delay(r2, n * WIFI_POLL_MS)
    IN  [r3 EXCEPT !.wifiConnected = w.ok,
                   !.hist.wifi = IF w.ok THEN "connected" ELSE "failed"]

\* sendCare with the failure treated as in chatWithVillage
sendCare_MarksOffline(r, careType, o) ==
    IF ~r.wifiConnected THEN r
    ELSE LET r1 == delay(Send(r, "care:" \o careType), o.dur)
         IN  [r1 EXCEPT !.villageOnline = (o.code = HTTP_OK)]

\* sendCare taking an unanswered request for a lost link
sendCare_DropsLink(r, careType, o) ==
    IF ~r.wifiConnected THEN r
    ELSE LET r1 == delay(Send(r, "care:" \o careType), o.dur)
         IN  IF o.code = HTTP_OK THEN [r1 EXCEPT !.villageOnline = TRUE]
             ELSE [r1 EXCEPT !.wifiConnected = FALSE, !.villageOnline = FALSE]

sendCare(r, careType, o) ==
    IF ~r.wifiConnected THEN r
    ELSE LET r1 == delay(Send(r, "care:" \o careType), o.dur)
         IN  IF o.code = HTTP_OK THEN [r1 EXCEPT !.villageOnline = TRUE] ELSE r1

\* syncWithVillage with the failure treated as in chatWithVillage
syncWithVillage_MarksOffline(r, o) ==
    IF ~r.wifiConnected THEN showMessage(r, "No WiFi", 2000)
    ELSE LET r1 == delay(Send(r, "sync"), o.dur)
         IN  IF o.code = HTTP_OK
             THEN [showMessage(r1, "Soul synced!", 2000) EXCEPT !.villageOnline = TRUE]
             ELSE [showMessage(r1, "Sync failed", 2000) EXCEPT !.villageOnline = FALSE]

\* syncWithVillage entering MODE_SYNC for the request and leaving it only
\* when the request succeeds
syncWithVillage_SyncMode(r, o) ==
    IF ~r.wifiConnected THEN showMessage(r, "No WiFi", 2000)
    ELSE LET r1 == delay(Send([r EXCEPT !.currentMode = "MODE_SYNC"], "sync"), o.dur)
         IN  IF o.code = HTTP_OK
             THEN [showMessage(r1, "Soul synced!", 2000) EXCEPT
                     !.villageOnline = TRUE, !.currentMode = r.currentMode]
             ELSE showMessage(r1, "Sync failed", 2000)

syncWithVillage(r, o) ==
    IF ~r.wifiConnected THEN showMessage(r, "No WiFi", 2000)
    ELSE LET r1 == delay(Send(r, "sync"), o.dur)
         IN  IF o.code = HTTP_OK
             THEN [showMessage(r1, "Soul synced!", 2000) EXCEPT !.villageOnline = TRUE]
             ELSE showMessage(r1, "Sync failed", 2000)

fetchVillageStatus(r, o) ==
    IF ~r.wifiConnected THEN r
    ELSE LET r1 == delay(Send(r, "status"), o.dur)
         IN  IF o.code = HTTP_OK
             THEN [r1 EXCEPT
                     !.villageOnline = IF o.online = <<>> THEN FALSE ELSE o.online[1],
                     !.toolsAvailable = IF o.tools = <<>> THEN 0 ELSE o.tools[1]]
             ELSE [r1 EXCEPT !.villageOnline = FALSE]

\* chatWithVillage without `currentExpr = stringToExpression(exprStr)`
chatWithVillage_MoodFace(r, o) ==
    IF ~r.wifiConnected THEN [rec |-> r, text |-> "Offline mode..."]
    ELSE LET r1 == [r EXCEPT !.currentExpr = "EXPR_THINKING"]
             r2 == delay(Send(r1, "chat"), o.dur)
         IN  IF o.code = HTTP_OK
             THEN LET careValue == IF o.care = <<>> THEN DEFAULT_CARE ELSE o.care[1]
                  IN  Then(applyCare(r2, careValue), LAMBDA r3 :
                      [rec |-> [r3 EXCEPT !.villageOnline = TRUE], text |-> "reply"])
             ELSE [rec |-> [r2 EXCEPT !.villageOnline = FALSE,
                                      !.currentExpr = stateToExpression(getState(r2.E))],
                   text |-> "Village sleeping..."]

\* chatWithVillage without `villageOnline = false` in the else branch
chatWithVillage_KeepsFlag(r, o) ==
    IF ~r.wifiConnected THEN [rec |-> r, text |-> "Offline mode..."]
    ELSE LET r1 == [r EXCEPT !.currentExpr = "EXPR_THINKING"]
             r2 == delay(Send(r1, "chat"), o.dur)
         IN  IF o.code = HTTP_OK
             THEN LET exprStr   == IF o.expr = <<>> THEN "NEUTRAL" ELSE o.expr[1]
                      careValue == IF o.care = <<>> THEN DEFAULT_CARE ELSE o.care[1]
                  IN  Then(applyCare(r2, careValue), LAMBDA r3 :
                      [rec |-> [r3 EXCEPT !.currentExpr = stringToExpression(exprStr),
                                          !.villageOnline = TRUE],
                       text |-> "reply"])
             ELSE [rec |-> [r2 EXCEPT !.currentExpr = stateToExpression(getState(r2.E))],
                   text |-> "Village sleeping..."]

\* chatWithVillage with applyCare() called before the code is looked at
chatWithVillage_CaresFirst(r, o) ==
    IF ~r.wifiConnected THEN [rec |-> r, text |-> "Offline mode..."]
    ELSE LET r1 == [r EXCEPT !.currentExpr = "EXPR_THINKING"]
             r2 == delay(Send(r1, "chat"), o.dur)
             exprStr   == IF o.expr = <<>> THEN "NEUTRAL" ELSE o.expr[1]
             careValue == IF o.care = <<>> THEN DEFAULT_CARE ELSE o.care[1]
         IN  Then(applyCare(r2, careValue), LAMBDA r3 :
             IF o.code = HTTP_OK
             THEN [rec |-> [r3 EXCEPT !.currentExpr = stringToExpression(exprStr),
                                      !.villageOnline = TRUE],
                   text |-> "reply"]
             ELSE [rec |-> [r3 EXCEPT !.villageOnline = FALSE,
                                      !.currentExpr = stateToExpression(getState(r3.E))],
                   text |-> "Village sleeping..."])

\* the reply text is not kept: "reply" stands for respDoc["response"]
chatWithVillage(r, o) ==
    IF ~r.wifiConnected THEN [rec |-> r, text |-> "Offline mode..."]
    ELSE LET r1 == [r EXCEPT !.currentExpr = "EXPR_THINKING"]
             r2 == delay(Send(r1, "chat"), o.dur)
         IN  IF o.code = HTTP_OK
             THEN LET exprStr   == IF o.expr = <<>> THEN "NEUTRAL" ELSE o.expr[1]
                      careValue == IF o.care = <<>> THEN DEFAULT_CARE ELSE o.care[1]
                  IN  Then(applyCare(r2, careValue), LAMBDA r3 :
                      [rec |-> [r3 EXCEPT !.currentExpr = stringToExpression(exprStr),
                                          !.villageOnline = TRUE],
                       text |-> "reply"])
             ELSE [rec |-> [r2 EXCEPT !.villageOnline = FALSE,
                                      !.currentExpr = stateToExpression(getState(r2.E))],
                   text |-> "Village sleeping..."]

\* -------------------------------------------------------------- persistence
\* serializeJson() writes a float as decimal text, the digits before the point
\* and nine digits after it (ArduinoJson is not part of the repository; nine
\* places is what it keeps); `unit` is the number of model units per 1.0
JsonDigits == 10^9

JsonFloat(x, unit) ==
    [ whole |-> x \div unit, frac |-> (x % unit) * (JsonDigits \div unit) ]

\* deserializeJson() and as<float>(): the decimal text read back, to the
\* nearest model unit below
FloatOf(txt, unit) == txt.whole * unit + txt.frac \div (JsonDigits \div unit)

\* doc[key] | fallback
Member(doc, key, fallback) == IF key \in DOMAIN doc THEN doc[key] ELSE fallback

\* saveState writing the number of agents for the agent index
saveState_AgentCount(r) ==
    [r EXCEPT !.hist.saves = @ + 1,
              !.file = [exists |-> TRUE,
                        E |-> JsonFloat(r.E, FP), E_floor |-> JsonFloat(r.E_floor, FP),
                        interactions |-> r.interactions,
                        total_care |-> JsonFloat(r.totalCare, CU),
                        birth_time |-> r.birthTime, agent |-> NUM_AGENTS]]

\* saveState writing E under both "E" and "E_floor"
saveState_FloorIsE(r) ==
    [r EXCEPT !.hist.saves = @ + 1,
              !.file = [exists |-> TRUE,
                        E |-> JsonFloat(r.E, FP), E_floor |-> JsonFloat(r.E, FP),
                        interactions |-> r.interactions,
                        total_care |-> JsonFloat(r.totalCare, CU),
                        birth_time |-> r.birthTime, agent |-> r.currentAgentIndex]]

saveState(r) ==
    [r EXCEPT !.hist.saves = @ + 1,
              !.file = [exists |-> TRUE,
                        E |-> JsonFloat(r.E, FP), E_floor |-> JsonFloat(r.E_floor, FP),
                        interactions |-> r.interactions,
                        total_care |-> JsonFloat(r.totalCare, CU),
                        birth_time |-> r.birthTime, agent |-> r.currentAgentIndex]]

loadState(r) ==
    IF ~r.file.exists THEN r
    ELSE [r EXCEPT
            !.E = FloatOf(Member(r.file, "E", JsonFloat(INITIAL_E, FP)), FP),
            !.E_floor = FloatOf(Member(r.file, "E_floor", JsonFloat(INITIAL_FLOOR, FP)), FP),
            !.interactions = Member(r.file, "interactions", 0),
            !.totalCare = FloatOf(Member(r.file, "total_care", JsonFloat(0, CU)), CU),
            !.birthTime = Member(r.file, "birth_time", r.clock),
            !.currentAgentIndex = Member(r.file, "agent", 0)]


\* --------------------------------------------------------------- observation
\* hist records what the claims speak of and the globals do not keep: per
\* button ("A", "B") the course of its holds, and for the last step the
\* calls it made and what they came to.  No operator that models the program
\* reads it.
Btn == {"A", "B"}

InitHist ==
    [ down      |-> [b \in Btn |-> 0],      \* when the button last went down
      held      |-> [b \in Btn |-> 0],      \* how long its last finished hold lasted
      solo      |-> [b \in Btn |-> TRUE],   \* the other button stayed up during the hold
      long      |-> [b \in Btn |-> 0],      \* LongPress actions since it went down
      short     |-> [b \in Btn |-> 0],      \* ShortPress actions since it went down
      regLong   |-> [b \in Btn |-> 0],      \* LongPress actions since its press edge
      regCombo  |-> [b \in Btn |-> 0],      \* ComboHolds since its press edge
      regShort  |-> [b \in Btn |-> 0],      \* ShortPress actions since its press edge
      edge      |-> [b \in Btn |-> -1],     \* time of its last accepted transition
      sep       |-> [b \in Btn |-> DEBOUNCE_MS], \* time between its last two
      bothSince |-> -1,                     \* when both were last down together
      combos    |-> 0,                      \* ComboHolds since then
      stalled   |-> FALSE,                  \* a loop() iteration since then was late
      jointHeld |-> 0,                      \* how long the last joint hold lasted
      comboLive |-> FALSE,                  \* a ComboHold fired in the present hold
      afterCombo |-> 0,                     \* Short/LongPress actions after it
      comboOnEdge |-> FALSE,                \* it fired with a button not yet registered
      cared     |-> << >>,                  \* the applyCare() calls of the last step
      atCall    |-> [t |-> 0, mode |-> "MODE_FACE", soul |-> << >>, link |-> FALSE],  \* at the last handleButtons()
      atReturn  |-> [mode |-> "MODE_FACE", soul |-> << >>, sent |-> << >>, expr |-> ""], \* after it
      gated     |-> FALSE,                  \* that call returned at the debounce gate
      longIn    |-> [b \in Btn |-> ""],     \* the mode in which that call's LongPress found it
      shortIn   |-> [b \in Btn |-> ""],     \* the mode in which that call's ShortPress found it
      order     |-> << >>,                  \* the applyCare() calls and requests of the last step, in order
      wifi      |-> "",                     \* what the connectWiFi() call of the last step came to
      saves     |-> 0,                      \* the saveState() calls of the last step
      sync      |-> [made |-> FALSE, code |-> 0, msg |-> "", lasts |-> 0, kept |-> TRUE,
                     online |-> << FALSE, FALSE >>, saved |-> FALSE],
                                            \* the syncWithVillage() call of the last step:
                                            \* what it left and what it changed
      report    |-> [b \in Btn |-> [made |-> FALSE, code |-> 0, kept |-> TRUE,
                                     online |-> << FALSE, FALSE >>]],
                                            \* the sendCare() call of its ShortPress in the last
                                            \* step: what it left and what it changed
      chat      |-> [code |-> 0, care |-> << >>, expr |-> << >>, text |-> ""],
                                            \* the reply to the chat of the last step and the text returned
      npins     |-> 0,                      \* pin changes so far
      nlines    |-> 0,                      \* serial lines so far
      boots     |-> 0,                      \* power cycles so far
      probe     |-> << >> ]                 \* FunSpec: the function applied and what it returned

Soul(r) == << r.E, r.E_floor, r.interactions, r.totalCare, r.currentAgentIndex >>

Bump(f, b) == [f EXCEPT ![b] = Min(@ + 1, 2)]

Track(h, ev, b, t, r) ==
    CASE ev = "Press" ->
            [h EXCEPT !.sep[b] = IF h.edge[b] < 0 THEN @ ELSE t - h.edge[b],
                      !.edge[b] = t,
                      !.regLong[b] = 0, !.regCombo[b] = 0, !.regShort[b] = 0]
      [] ev = "Release" ->
            [h EXCEPT !.sep[b] = IF h.edge[b] < 0 THEN @ ELSE t - h.edge[b],
                      !.edge[b] = t]
      [] ev = "Long" ->
            [h EXCEPT !.long = Bump(@, b), !.regLong = Bump(@, b),
                      !.longIn[b] = r.currentMode,
                      !.afterCombo = IF h.comboLive THEN Min(@ + 1, 2) ELSE @]
      [] ev = "Short" ->
            [h EXCEPT !.short = Bump(@, b), !.regShort = Bump(@, b),
                      !.shortIn[b] = r.currentMode,
                      !.afterCombo = IF h.comboLive THEN Min(@ + 1, 2) ELSE @]
      [] ev = "Combo" ->
            [h EXCEPT !.combos = Min(@ + 1, 2),
                      !.regCombo = [x \in Btn |-> Min(@[x] + 1, 2)],
                      !.comboLive = TRUE,
                      !.comboOnEdge = ~(r.btnA_pressed /\ r.btnB_pressed)]

Emit(r, ev, b, t) ==
    [r EXCEPT !.emitted = Append(@, ev \o b), !.hist = Track(r.hist, ev, b, t, r)]


\* ----------------------------------------------------------- input handling
\* the globals, without the clock and the observation
Globals(r) ==
    << r.E, r.E_floor, r.interactions, r.totalCare, r.birthTime,
       r.currentAgentIndex, r.currentMode, r.currentExpr, r.messageText,
       r.messageExpires, r.btnA_pressed, r.btnB_pressed, r.btnA_pressTime,
       r.btnB_pressTime, r.btnA_longTriggered, r.btnB_longTriggered,
       r.lastDebounce, r.wifiConnected, r.villageOnline, r.lastWifiAttempt,
       r.toolsAvailable, r.lastSave, r.file >>

\* sendCare() called for the ShortPress of button b, and what it did noted
Reported(r, careType, o, b) ==
    Then(sendCare(r, careType, o), LAMBDA r2 :
    [r2 EXCEPT !.hist.report[b] =
        [made |-> TRUE, code |-> o.code,
         kept |-> Globals([r2 EXCEPT !.villageOnline = r.villageOnline]) = Globals(r),
         online |-> << r.villageOnline, r2.villageOnline >>]])

AGENTS == << "AZOTH", "ELYSIAN", "VAJRA", "KETHER", "CLAUDE" >>

\* handleButtons() without the debounce gate
Debounced_Never(t, last) == FALSE

\* if (now - lastDebounce < DEBOUNCE_MS) return;
Debounced(t, last) == t - last < DEBOUNCE_MS

\* now - btnA_pressTime > 1000 && now - btnB_pressTime > 1000
ComboDue(t, pressTimeA, pressTimeB) ==
    t - pressTimeA > COMBO_MS /\ t - pressTimeB > COMBO_MS

\* Both buttons - sync (lines 693-702)
ComboBlock(r, t, btnA, btnB, o) ==
    IF /\ btnA /\ btnB /\ ~r.btnA_longTriggered /\ ~r.btnB_longTriggered
       /\ ComboDue(t, r.btnA_pressTime, r.btnB_pressTime)
    THEN LET r1 == Emit([r EXCEPT !.btnA_longTriggered = TRUE,
                                  !.btnB_longTriggered = TRUE], "Combo", "", t)
         IN  Then(showMessage(r1, "Syncing...", 3000), LAMBDA r2 :
             Then(syncWithVillage(r2, o), LAMBDA r3 :
             [r3 EXCEPT !.hist.sync =
                 [made |-> TRUE, code |-> o.code, msg |-> r3.messageText,
                  lasts |-> r3.messageExpires - r3.clock,
                  kept |-> Soul(r3) = Soul(r2) /\ r3.birthTime = r2.birthTime,
                  online |-> << r2.villageOnline, r3.villageOnline >>,
                  saved |-> r3.hist.saves # r2.hist.saves \/ r3.file # r2.file]]))
    ELSE r

\* lines 705-710
PressEdgeA(r, t, btnA) ==
    IF btnA /\ ~r.btnA_pressed
    THEN Emit([r EXCEPT !.btnA_pressed = TRUE, !.btnA_pressTime = t,
                        !.btnA_longTriggered = FALSE, !.lastDebounce = t],
              "Press", "A", t)
    ELSE r

\* ShortPressA with the care report sent before applyCare()
ShortPressA_ReportFirst(r, o) ==
    IF r.currentMode = "MODE_FACE"
    THEN Then(IF r.wifiConnected THEN Reported(r, "love", o, "A") ELSE r, LAMBDA r1 :
         Then(applyCare(r1, LOVE_CARE), LAMBDA r2 :
         delay(showMessage(r2, "Love!", 1500), LOVE_DELAY_MS)))
    ELSE IF r.currentMode = "MODE_AGENTS"
    THEN showMessage([r EXCEPT !.currentMode = "MODE_FACE"],
                     AGENTS[r.currentAgentIndex + 1], 1500)
    ELSE r

\* Short press A (lines 715-733)
ShortPressA(r, o) ==
    IF r.currentMode = "MODE_FACE"
    THEN Then(applyCare(r, LOVE_CARE), LAMBDA r1 :
         Then(IF r1.wifiConnected THEN Reported(r1, "love", o, "A") ELSE r1, LAMBDA r2 :
         delay(showMessage(r2, "Love!", 1500), LOVE_DELAY_MS)))
    ELSE IF r.currentMode = "MODE_AGENTS"
    THEN showMessage([r EXCEPT !.currentMode = "MODE_FACE"],
                     AGENTS[r.currentAgentIndex + 1], 1500)
    ELSE r

\* lines 711-735
ReleaseEdgeA(r, t, btnA, o) ==
    IF ~btnA /\ r.btnA_pressed
    THEN LET r1 == Emit([r EXCEPT !.btnA_pressed = FALSE, !.lastDebounce = t],
                        "Release", "A", t)
         IN  IF ~r1.btnA_longTriggered
             THEN ShortPressA(Emit(r1, "Short", "A", t), o)
             ELSE r1
    ELSE r

\* LongPressA without `btnA_longTriggered = true`
LongPressA_Again(r, t) ==
    IF r.btnA_pressed /\ ~r.btnA_longTriggered /\ t - r.btnA_pressTime > LONG_PRESS_MS
    THEN LET r1 == Emit(r, "Long", "A", t)
         IN  IF r1.currentMode = "MODE_FACE"
             THEN showMessage(r1, "Serial chat mode", 2000)
             ELSE r1
    ELSE r

\* lines 736-742
LongPressA(r, t) ==
    IF r.btnA_pressed /\ ~r.btnA_longTriggered /\ t - r.btnA_pressTime > LONG_PRESS_MS
    THEN LET r1 == Emit([r EXCEPT !.btnA_longTriggered = TRUE], "Long", "A", t)
         IN  IF r1.currentMode = "MODE_FACE"
             THEN showMessage(r1, "Serial chat mode", 2000)
             ELSE r1
    ELSE r

\* lines 745-750
PressEdgeB(r, t, btnB) ==
    IF btnB /\ ~r.btnB_pressed
    THEN Emit([r EXCEPT !.btnB_pressed = TRUE, !.btnB_pressTime = t,
                        !.btnB_longTriggered = FALSE, !.lastDebounce = t],
              "Press", "B", t)
    ELSE r

\* ShortPressB taking the FACE branch in every mode
ShortPressB_Poke(r, o) ==
    Then(applyCare(r, POKE_CARE), LAMBDA r1 :
    Then(IF r1.wifiConnected THEN Reported(r1, "poke", o, "B") ELSE r1, LAMBDA r2 :
    showMessage(r2, "*poke*", 1000)))

\* Short press B (lines 755-767)
ShortPressB(r, o) ==
    IF r.currentMode = "MODE_FACE"
    THEN Then(applyCare(r, POKE_CARE), LAMBDA r1 :
         Then(IF r1.wifiConnected THEN Reported(r1, "poke", o, "B") ELSE r1, LAMBDA r2 :
         showMessage(r2, "*poke*", 1000)))
    ELSE IF r.currentMode = "MODE_STATUS" \/ r.currentMode = "MODE_AGENTS"
    THEN [r EXCEPT !.currentMode = "MODE_FACE"]
    ELSE r

\* lines 751-769
ReleaseEdgeB(r, t, btnB, o) ==
    IF ~btnB /\ r.btnB_pressed
    THEN LET r1 == Emit([r EXCEPT !.btnB_pressed = FALSE, !.lastDebounce = t],
                        "Release", "B", t)
         IN  IF ~r1.btnB_longTriggered
             THEN ShortPressB(Emit(r1, "Short", "B", t), o)
             ELSE r1
    ELSE r

\* LongPressB without `btnB_longTriggered = true`
LongPressB_Again(r, t) ==
    IF r.btnB_pressed /\ ~r.btnB_longTriggered /\ t - r.btnB_pressTime > LONG_PRESS_MS
    THEN LET r1 == Emit(r, "Long", "B", t)
         IN  IF r1.currentMode = "MODE_FACE"
             THEN [r1 EXCEPT !.currentMode = "MODE_STATUS"]
             ELSE IF r1.currentMode = "MODE_STATUS"
             THEN [r1 EXCEPT !.currentMode = "MODE_AGENTS"]
             ELSE r1
    ELSE r

\* lines 770-779
LongPressB(r, t) ==
    IF r.btnB_pressed /\ ~r.btnB_longTriggered /\ t - r.btnB_pressTime > LONG_PRESS_MS
    THEN LET r1 == Emit([r EXCEPT !.btnB_longTriggered = TRUE], "Long", "B", t)
         IN  IF r1.currentMode = "MODE_FACE"
             THEN [r1 EXCEPT !.currentMode = "MODE_STATUS"]
             ELSE IF r1.currentMode = "MODE_STATUS"
             THEN [r1 EXCEPT !.currentMode = "MODE_AGENTS"]
             ELSE r1
    ELSE r

\* The block of lines 781-795 (agent cycling) holds comments only.
\* o: the outcomes of the sync and of the two care reports, should they be sent
handleButtons(r, btnA, btnB, o) ==
    LET t  == r.clock
        r0 == [r EXCEPT !.hist.atCall = [t |-> t, mode |-> r.currentMode, soul |-> Soul(r),
                                         link |-> r.wifiConnected],
                        !.hist.gated = Debounced(t, r.lastDebounce),
                        !.hist.longIn = [b \in Btn |-> ""],
                        !.hist.shortIn = [b \in Btn |-> ""]]
    IN  Then(IF Debounced(t, r.lastDebounce) THEN r0
             ELSE Then(ComboBlock(r0, t, btnA, btnB, o.sync),  LAMBDA a1 :
                  Then(PressEdgeA(a1, t, btnA),                LAMBDA a2 :
                  Then(ReleaseEdgeA(a2, t, btnA, o.careA),     LAMBDA a3 :
                  Then(LongPressA(a3, t),                      LAMBDA a4 :
                  Then(PressEdgeB(a4, t, btnB),                LAMBDA b2 :
                  Then(ReleaseEdgeB(b2, t, btnB, o.careB),     LAMBDA b3 :
                  LongPressB(b3, t))))))),
             LAMBDA q : [q EXCEPT !.hist.atReturn =
                            [mode |-> q.currentMode, soul |-> Soul(q), sent |-> q.sent,
                             expr |-> q.currentExpr]])


\* ---------------------------------------------------------------- main loop
\* RetryDue without the retry interval
RetryDue_AtOnce(r, t) == ~r.wifiConnected

\* RetryDue without `!wifiConnected`
RetryDue_EvenIfConnected(r, t) == t - r.lastWifiAttempt > WIFI_RETRY_MS

\* !wifiConnected && (now - lastWifiAttempt > WIFI_RETRY_MS)
RetryDue(r, t) == ~r.wifiConnected /\ t - r.lastWifiAttempt > WIFI_RETRY_MS

\* loopTimers without `now > messageExpires`
loopTimers_ClearsAtOnce(r, t, w) ==
    Then(IF r.messageExpires > 0
         THEN [r EXCEPT !.messageText = "", !.messageExpires = 0]
         ELSE r,                                          LAMBDA r1 :
    Then(IF t - r1.lastSave > SAVE_INTERVAL_MS
         THEN [saveState(r1) EXCEPT !.lastSave = t]
         ELSE r1,                                         LAMBDA r2 :
    IF RetryDue(r2, t) THEN connectWiFi(r2, w)
    ELSE r2))

\* lines 410-426: clear expired message, periodic save, WiFi reconnection
loopTimers(r, t, w) ==
    Then(IF r.messageExpires > 0 /\ t > r.messageExpires
         THEN [r EXCEPT !.messageText = "", !.messageExpires = 0]
         ELSE r,                                          LAMBDA r1 :
    Then(IF t - r1.lastSave > SAVE_INTERVAL_MS
         THEN [saveState(r1) EXCEPT !.lastSave = t]
         ELSE r1,                                         LAMBDA r2 :
    IF RetryDue(r2, t) THEN connectWiFi(r2, w)
    ELSE r2))

\* lines 447-467: serial chat input, delay(16)
loopSerial(r, available, reply) ==
    Then(IF available
         THEN Then(chatWithVillage(showMessage(r, "Thinking...", 10000), reply),
                   LAMBDA c : showMessage([c.rec EXCEPT !.hist.chat =
                                              [code |-> reply.code, care |-> reply.care,
                                               expr |-> reply.expr, text |-> c.text]],
                                          c.text, 5000))
         ELSE r,                                          LAMBDA r1 :
    delay(r1, LOOP_DELAY_MS))

NoOutcomes == [sync |-> NoCall, careA |-> NoCall, careB |-> NoCall]
NoWifi == [ok |-> FALSE, polls |-> 0]

\* loop(), lines 384-468.  pins: the levels read by handleButtons(); o, w,
\* reply: what the calls made in this iteration come to.
loop(r, btnA, btnB, available, o, w, reply) ==
    LET t == r.clock       \* unsigned long now = millis();
    IN  Then(handleButtons(r, btnA, btnB, o),    LAMBDA r1 :
        Then(loopTimers(r1, t, w),               LAMBDA r2 :
        Then(loopSerial(r2, available, reply),   LAMBDA r3 :
        [r3 EXCEPT !.hist.stalled = @ \/ r3.clock - t > RegularTickMs])))

\* emitted, sent and hist.cared speak of one step
Fresh(r) ==
    [r EXCEPT !.emitted = << >>, !.sent = << >>, !.hist.cared = << >>,
              !.hist.order = << >>, !.hist.wifi = "",
              !.hist.chat = InitHist.chat, !.hist.saves = 0,
              !.hist.sync = InitHist.sync, !.hist.report = InitHist.report]

\* A loop() iteration started at time u, with the pins as they are and no
\* serial line waiting, changes nothing but the clock.
IdleAt(u) ==
    /\ ~serialIn
    /\ \E r0 \in { [Fresh(Cur) EXCEPT !.clock = u] } :
         \E r2 \in { loopTimers(handleButtons(r0, pinA, pinB, NoOutcomes), u, NoWifi) } :
            /\ Globals(r2) = Globals(r0)
            /\ r2.clock = u
            /\ r2.emitted = << >>

\* The times after which a condition of loop() or handleButtons() becomes true
Deadlines ==
    { lastDebounce + DEBOUNCE_MS - 1,
      btnA_pressTime + LONG_PRESS_MS, btnB_pressTime + LONG_PRESS_MS,
      btnA_pressTime + COMBO_MS, btnB_pressTime + COMBO_MS,
      messageExpires, lastSave + SAVE_INTERVAL_MS,
      lastWifiAttempt + WIFI_RETRY_MS }

\* how many iterations from now start at or before time d
IterationsUpTo(d) == IF d < clock THEN 0 ELSE (d - clock) \div LOOP_DELAY_MS + 1

\* The length of the run of idle iterations taken in one step: up to the
\* first iteration that acts, or IdleRun iterations.  Every condition that
\* lets an iteration act is of the form `now - x > T` (`>= T` for the debounce
\* gate), so the iterations before an idle one are idle.
IdleRuns ==
    { j \in { IterationsUpTo(d) : d \in Deadlines } \cup {IdleRun} :
        /\ j >= 1 /\ j <= IdleRun
        /\ IdleAt(clock + (j - 1) * LOOP_DELAY_MS)
        /\ j = IdleRun \/ ~IdleAt(clock + j * LOOP_DELAY_MS) }

Running == clock <= MaxClock /\ interactions < MaxInteractions

Events == hist.npins + hist.nlines + hist.boots

Attended == Running /\ clock <= MaxInputClock

\* ------------------------------------------------------------------ actions
\* the initializers of the globals (lines 242-282), before setup() runs
Initial ==
    [ E |-> INITIAL_E, E_floor |-> INITIAL_FLOOR, interactions |-> 0,
      totalCare |-> 0, birthTime |-> 0, currentAgentIndex |-> 0,
      currentMode |-> "MODE_FACE", currentExpr |-> "EXPR_NEUTRAL",
      messageText |-> "", messageExpires |-> 0,
      btnA_pressed |-> FALSE, btnB_pressed |-> FALSE,
      btnA_pressTime |-> 0, btnB_pressTime |-> 0,
      btnA_longTriggered |-> FALSE, btnB_longTriggered |-> FALSE,
      lastDebounce |-> 0, wifiConnected |-> FALSE, villageOnline |-> FALSE,
      lastWifiAttempt |-> 0, toolsAvailable |-> 0, lastSave |-> 0,
      file |-> NoFile, clock |-> 0, emitted |-> << >>, sent |-> << >>,
      hist |-> InitHist ]

Init ==
    /\ E = Initial.E
    /\ E_floor = Initial.E_floor
    /\ interactions = Initial.interactions
    /\ totalCare = Initial.totalCare
    /\ birthTime = Initial.birthTime
    /\ currentAgentIndex = Initial.currentAgentIndex
    /\ currentMode = Initial.currentMode
    /\ currentExpr = Initial.currentExpr
    /\ messageText = Initial.messageText
    /\ messageExpires = Initial.messageExpires
    /\ btnA_pressed = Initial.btnA_pressed
    /\ btnB_pressed = Initial.btnB_pressed
    /\ btnA_pressTime = Initial.btnA_pressTime
    /\ btnB_pressTime = Initial.btnB_pressTime
    /\ btnA_longTriggered = Initial.btnA_longTriggered
    /\ btnB_longTriggered = Initial.btnB_longTriggered
    /\ lastDebounce = Initial.lastDebounce
    /\ wifiConnected = Initial.wifiConnected
    /\ villageOnline = Initial.villageOnline
    /\ lastWifiAttempt = Initial.lastWifiAttempt
    /\ toolsAvailable = Initial.toolsAvailable
    /\ lastSave = Initial.lastSave
    /\ file = Initial.file
    /\ clock = Initial.clock
    /\ emitted = Initial.emitted
    /\ sent = Initial.sent
    /\ hist = Initial.hist
    /\ pinA = FALSE
    /\ pinB = FALSE
    /\ pc = "boot"
    /\ serialIn = FALSE

\* the outcomes to choose among for a call that is made only if `made`
IfMade(made, outcomes, none) == IF made THEN outcomes ELSE {none}

Has(seq, x) == \E i \in DOMAIN seq : seq[i] = x

\* setup(), lines 308-381
setup(r, w, o) ==
    Then(loadState(delay(r, SETUP_DELAY_MS)),                          LAMBDA r1 :
    Then(IF r1.birthTime = 0 THEN [r1 EXCEPT !.birthTime = r1.clock] ELSE r1,
                                                                       LAMBDA r2 :
    Then(connectWiFi(r2, w),                                           LAMBDA r3 :
    Then(IF r3.wifiConnected THEN fetchVillageStatus(r3, o) ELSE r3,   LAMBDA r4 :
    Then(delay(r4, WAKE_ANIM_MS),                                      LAMBDA r5 :
    [r5 EXCEPT !.currentExpr = stateToExpression(getState(r5.E))])))))

Setup ==
    /\ pc = "boot"
    /\ \E w \in WifiResults :
         \E o \in IfMade(w.ok, StatusReplies, NoStatus) :
            \E r \in { setup(Fresh(Cur), w, o) } : Commit(r)
    /\ pc' = "loop"
    /\ UNCHANGED << pinA, pinB, serialIn >>

\* One iteration of loop() in which something happens.  Which calls it makes
\* does not depend on what the earlier calls of the iteration come to, except
\* that the chat request needs the link that a reconnection may bring up.
Loop ==
    /\ pc = "loop"
    /\ Running
    /\ ~IdleAt(clock)
    /\ \E dry \in { loop(Fresh(Cur), pinA, pinB, serialIn, NoOutcomes, NoWifi, NoChat) } :
       \E os \in IfMade(Has(dry.sent, "sync"), Outcomes(SYNC_TIMEOUT_MS), NoCall),
          oa \in IfMade(Has(dry.sent, "care:love"), Outcomes(CARE_TIMEOUT_MS), NoCall),
          ob \in IfMade(Has(dry.sent, "care:poke"), Outcomes(CARE_TIMEOUT_MS), NoCall),
          w  \in IfMade(dry.lastWifiAttempt # lastWifiAttempt, WifiResults, NoWifi) :
       \E reply \in IfMade(serialIn /\ (wifiConnected \/ w.ok), ChatReplies, NoChat) :
       \E r \in { loop(Fresh(Cur), pinA, pinB, serialIn,
                        [sync |-> os, careA |-> oa, careB |-> ob], w, reply) } :
          Commit(r)
    /\ serialIn' = FALSE
    /\ UNCHANGED << pinA, pinB, pc >>

\* A run of iterations of loop() that change nothing but the clock, up to the
\* first iteration that acts or IdleRun iterations long.  The observation is
\* left as the last of them leaves it.
IdleIterations ==
    /\ pc = "loop"
    /\ Running
    /\ \E j \in IdleRuns :
         \E r \in { loop([Fresh(Cur) EXCEPT !.clock = clock + (j - 1) * LOOP_DELAY_MS],
                          pinA, pinB, FALSE, NoOutcomes, NoWifi, NoChat) } :
            Commit(r)
    /\ UNCHANGED << pinA, pinB, pc, serialIn >>

\* the user presses or releases a button
PinDown(h, b, otherDown, t) ==
    [h EXCEPT !.down[b] = t, !.held[b] = 0, !.long[b] = 0, !.short[b] = 0,
              !.solo = [x \in Btn |-> IF x = b THEN ~otherDown
                                      ELSE IF otherDown THEN FALSE ELSE @[x]],
              !.bothSince = IF otherDown THEN t ELSE @,
              !.combos = IF otherDown THEN 0 ELSE @,
              !.stalled = IF otherDown THEN FALSE ELSE @,
              !.jointHeld = IF otherDown THEN 0 ELSE @,
              !.comboLive = FALSE, !.afterCombo = 0,
              !.npins = @ + 1]

PinUp(h, b, otherDown, t) ==
    [h EXCEPT !.held[b] = t - h.down[b],
              !.jointHeld = IF otherDown /\ ~h.stalled THEN t - h.bothSince ELSE @,
              !.npins = @ + 1]

PinChange ==
    /\ pc = "loop"
    /\ Attended
    /\ Events < MaxEvents
    /\ \E b \in Btn :
         LET isDown    == IF b = "A" THEN pinA ELSE pinB
             otherDown == IF b = "A" THEN pinB ELSE pinA
         IN  /\ hist' = IF isDown THEN PinUp(Fresh(Cur).hist, b, otherDown, clock)
                                  ELSE PinDown(Fresh(Cur).hist, b, otherDown, clock)
             /\ pinA' = IF b = "A" THEN ~pinA ELSE pinA
             /\ pinB' = IF b = "B" THEN ~pinB ELSE pinB
    /\ UNCHANGED << E, E_floor, interactions, totalCare, birthTime,
                    currentAgentIndex, currentMode, currentExpr, messageText,
                    messageExpires, btnA_pressed, btnB_pressed, btnA_pressTime,
                    btnB_pressTime, btnA_longTriggered, btnB_longTriggered,
                    lastDebounce, wifiConnected, villageOnline, lastWifiAttempt,
                    toolsAvailable, lastSave, file, clock, pc, serialIn >>
    /\ emitted' = << >>
    /\ sent' = << >>

\* the user sends a line over the serial port
SerialLine ==
    /\ pc = "loop"
    /\ Attended
    /\ ~serialIn
    /\ hist.nlines < MaxLines
    /\ Events < MaxEvents
    /\ serialIn' = TRUE
    /\ hist' = [Fresh(Cur).hist EXCEPT !.nlines = @ + 1]
    /\ UNCHANGED << E, E_floor, interactions, totalCare, birthTime,
                    currentAgentIndex, currentMode, currentExpr, messageText,
                    messageExpires, btnA_pressed, btnB_pressed, btnA_pressTime,
                    btnB_pressTime, btnA_longTriggered, btnB_longTriggered,
                    lastDebounce, wifiConnected, villageOnline, lastWifiAttempt,
                    toolsAvailable, lastSave, file, clock, pinA, pinB, pc >>
    /\ emitted' = << >>
    /\ sent' = << >>

\* the device is switched off and on: RAM is lost, /soul.json is kept
PowerCycle ==
    /\ pc = "loop"
    /\ file.exists
    /\ hist.boots < MaxBoots
    /\ Events < MaxEvents
    /\ Commit([Initial EXCEPT !.file = file,
                              !.hist.npins = hist.npins,
                              !.hist.nlines = hist.nlines,
                              !.hist.boots = hist.boots + 1])
    /\ pc' = "boot"
    /\ serialIn' = FALSE
    /\ UNCHANGED << pinA, pinB >>

Next ==
    \/ Setup
    \/ Loop
    \/ IdleIterations
    \/ PinChange
    \/ SerialLine
    \/ PowerCycle

Spec == Init /\ [][Next]_vars

\* A call of loop() has returned: time has passed.  (Loop and IdleIterations
\* are the steps of Next that do this, and one of them is possible whenever
\* loop() is running.)
Tick ==
    /\ pc = "loop"
    /\ Running
    /\ clock' \in (clock + 1)..(clock + MaxClock + IdleRun * LOOP_DELAY_MS)

\* setup() runs after power-on, and loop() is called again whenever it returns
FairSpec == Spec /\ WF_vars(Setup) /\ WF_clock(Tick)


\* ------------------------------------------------ the functions on their own
\* FunSpec applies getState() and the saveState()/loadState() pair to soul
\* states drawn from sample sets: every valid combination of the energies
\* around the thresholds with counters, birth times and agent indices.
Ladder ==
    << E_THRESHOLD_GUARDED, E_THRESHOLD_TENDER, E_THRESHOLD_WARM,
       E_THRESHOLD_FLOURISHING, E_THRESHOLD_RADIANT, E_THRESHOLD_TRANSCENDENT >>

Energies ==
    {0, 1, 75000000, MAX_E - 1, MAX_E}
        \cup UNION { {Ladder[i] - 1, Ladder[i], Ladder[i] + 1} : i \in DOMAIN Ladder }

InteractionCounts == {0, 7}

CareTotals == {0, 105}

BirthTimes == {100, 4750}

FunInit ==
    /\ E \in Energies
    /\ E_floor \in { f \in Energies : f <= E }
    /\ interactions \in InteractionCounts
    /\ totalCare \in CareTotals
    /\ birthTime \in BirthTimes
    /\ currentAgentIndex \in 0..(NUM_AGENTS - 1)
    /\ currentMode = Initial.currentMode
    /\ currentExpr = Initial.currentExpr
    /\ messageText = Initial.messageText
    /\ messageExpires = Initial.messageExpires
    /\ btnA_pressed = Initial.btnA_pressed
    /\ btnB_pressed = Initial.btnB_pressed
    /\ btnA_pressTime = Initial.btnA_pressTime
    /\ btnB_pressTime = Initial.btnB_pressTime
    /\ btnA_longTriggered = Initial.btnA_longTriggered
    /\ btnB_longTriggered = Initial.btnB_longTriggered
    /\ lastDebounce = Initial.lastDebounce
    /\ wifiConnected = Initial.wifiConnected
    /\ villageOnline = Initial.villageOnline
    /\ lastWifiAttempt = Initial.lastWifiAttempt
    /\ toolsAvailable = Initial.toolsAvailable
    /\ lastSave = Initial.lastSave
    /\ file = Initial.file
    /\ clock = Initial.clock
    /\ emitted = Initial.emitted
    /\ sent = Initial.sent
    /\ hist = Initial.hist
    /\ pinA = FALSE
    /\ pinB = FALSE
    /\ pc = "fun"
    /\ serialIn = FALSE

\* getState() called with E_floor for E and with E
Classify ==
    /\ pc = "fun"
    /\ hist.probe = << >>
    /\ hist' = [hist EXCEPT !.probe = << "getState", getState(E_floor), getState(E) >>]
    /\ UNCHANGED << E, E_floor, interactions, totalCare, birthTime,
                    currentAgentIndex, currentMode, currentExpr, messageText,
                    messageExpires, btnA_pressed, btnB_pressed, btnA_pressTime,
                    btnB_pressTime, btnA_longTriggered, btnB_longTriggered,
                    lastDebounce, wifiConnected, villageOnline, lastWifiAttempt,
                    toolsAvailable, lastSave, file, clock, pinA, pinB, pc,
                    serialIn, emitted, sent >>

\* the six soul globals
Persisted(r) ==
    [ E |-> r.E, E_floor |-> r.E_floor, interactions |-> r.interactions,
      totalCare |-> r.totalCare, birthTime |-> r.birthTime,
      currentAgentIndex |-> r.currentAgentIndex ]

\* saveState(), the power switched off and on (the globals back at their
\* initial values, /soul.json kept), loadState()
RoundTrip ==
    /\ pc = "fun"
    /\ hist.probe = << >>
    /\ \E s \in { saveState(Cur) } :
       \E r \in { loadState([Initial EXCEPT !.file = s.file, !.hist = s.hist]) } :
            Commit([r EXCEPT !.hist.probe =
                        << "roundTrip", Persisted(Cur), Persisted(r), DOMAIN s.file >>])
    /\ UNCHANGED << pinA, pinB, pc, serialIn >>

FunNext == Classify \/ RoundTrip

FunSpec == FunInit /\ [][FunNext]_vars


\* ------------------------------------------------------------------- claims
\* C1.  In every reachable state, whether the soul started from the defaults
\* or was restored from /soul.json, and so after every updateSoul() call,
\* E_floor <= E <= MAX_E.
C1_EnergyWithinBounds == E_floor <= E /\ E <= MAX_E

\* after a restore, an applyCare() call has just raised E to the MAX_E clamp
C1_RestoredThenClamped ==
    hist.boots = 1 /\ pc = "loop" /\ Len(hist.cared) > 0 /\ E = MAX_E

\* C2.  No step of a run (setup(), a loop() iteration with whatever its
\* button events and HTTP exchanges come to, idle ticks) lowers E_floor, a
\* chat reply with a negative care_value included.
C2_FloorNeverDecreases == [][pc' = "loop" => E_floor' >= E_floor]_vars

\* a chat reply with care_value -1.0 has just been applied to a raised floor
C2_NegativeCareOnRaisedFloor ==
    Has(sent, "chat") /\ hist.cared = << -10 >> /\ E_floor > INITIAL_FLOOR

\* the i-th care value of s if it is positive, 0 otherwise
PosCare(s, i) == IF i <= Len(s) /\ s[i] > 0 THEN s[i] ELSE 0

\* C3.  In every step of a run after setup(), interactions grows by exactly
\* the number of applyCare() calls of the step and totalCare by exactly the
\* positive care values among them; neither ever decreases.
C3_CountersOnlyGrow ==
    [][pc = "loop" /\ pc' = "loop" =>
         /\ Len(hist'.cared) <= 3
         /\ interactions' = interactions + Len(hist'.cared)
         /\ totalCare' = totalCare + PosCare(hist'.cared, 1)
                         + PosCare(hist'.cared, 2) + PosCare(hist'.cared, 3)
         /\ interactions' >= interactions
         /\ totalCare' >= totalCare]_vars

\* a negative care value was applied after a positive one
C3_NegativeCareCounted ==
    hist.cared = << -10 >> /\ interactions = 2 /\ totalCare = LOVE_CARE

LongTriggered(b) == IF b = "A" THEN btnA_longTriggered ELSE btnB_longTriggered
Pressed(b) == IF b = "A" THEN btnA_pressed ELSE btnB_pressed
PressTime(b) == IF b = "A" THEN btnA_pressTime ELSE btnB_pressTime

\* C4 (as amended).  Per registered hold of a button, from the press edge
\* handleButtons() records to the release edge it records: LongPress fires at
\* most once; it has fired, or a ComboHold has marked the button, once a
\* handleButtons() call has passed the debounce gate with the button still
\* registered as pressed more than LONG_PRESS_MS after the registered press
\* time; and the release edge emits a ShortPress exactly when neither a
\* LongPress nor a ComboHold occurred since the press edge.
C4_LongPressPerRegisteredHold ==
    \A b \in Btn :
        /\ hist.regLong[b] <= 1
        /\ hist.regShort[b] <= 1
        /\ Has(emitted, "Release" \o b) =>
              (hist.regShort[b] = 1 <=> hist.regLong[b] = 0 /\ hist.regCombo[b] = 0)
        /\ (~hist.gated /\ Pressed(b) /\ hist.atCall.t - PressTime(b) > LONG_PRESS_MS) =>
              (LongTriggered(b) /\ hist.regLong[b] + hist.regCombo[b] >= 1)

\* button A alone was held past the threshold and released: one LongPress,
\* no ShortPress
C4_LongHoldReleased ==
    /\ Has(emitted, "ReleaseA")
    /\ hist.solo["A"] /\ hist.held["A"] > LONG_PRESS_MS
    /\ hist.long["A"] = 1 /\ hist.short["A"] = 0

\* C4 as stated: every hold of a single button that lasted longer than
\* LONG_PRESS_MS saw exactly one LongPress and no ShortPress.
C4_ExactlyOncePerHold ==
    \A b \in Btn :
        (hist.solo[b] /\ hist.held[b] > LONG_PRESS_MS) =>
            (hist.long[b] = 1 /\ hist.short[b] = 0)

\* C5.  For each button, two consecutive transitions recorded by
\* handleButtons() (press edge, release edge) are at least DEBOUNCE_MS apart.
C5_DebounceSeparation == \A b \in Btn : hist.sep[b] >= DEBOUNCE_MS

\* a release edge of A recorded less than LONG_PRESS_MS after its press edge,
\* with an edge of B recorded in between
C5_QuickReleaseRecorded ==
    /\ Has(emitted, "ReleaseA") /\ hist.sep["A"] < LONG_PRESS_MS
    /\ hist.edge["B"] > btnA_pressTime

\* C6 as stated: after a ComboHold, neither button emits a LongPress or a
\* ShortPress for the same hold.
C6_ComboSuppressesButtons == hist.afterCombo = 0

\* C7 as stated: a joint hold of both buttons that lasted longer than
\* COMBO_MS, with no loop() iteration longer than RegularTickMs, saw exactly
\* one ComboHold.
C7_ComboFiresOnJointHold == hist.jointHeld > COMBO_MS => hist.combos = 1

\* C8 as stated: a ComboHold is emitted only with both buttons registered as
\* pressed (so not on the tick that registers a press edge).
C8_ComboOnlyWhenBothRegistered == ~hist.comboOnEdge

\* C9 as stated: btnX_longTriggered is true only while btnX_pressed is true.
C9_LongTriggeredOnlyWhilePressed ==
    \A b \in Btn : LongTriggered(b) => Pressed(b)

\* C10.  A handleButtons() call entered in MODE_STATUS that emits ShortPress(B)
\* returns in MODE_FACE, with E, E_floor, interactions, totalCare and
\* currentAgentIndex as they were and no HTTP request sent.
C10_ShortBInStatus ==
    (Has(emitted, "ShortB") /\ hist.atCall.mode = "MODE_STATUS") =>
        /\ hist.atReturn.mode = "MODE_FACE"
        /\ hist.atReturn.soul = hist.atCall.soul
        /\ hist.atReturn.sent = << >>

\* a ShortPress(B) was processed in MODE_STATUS
C10_ShortBInStatusSeen ==
    Has(emitted, "ShortB") /\ hist.atCall.mode = "MODE_STATUS" /\ currentMode = "MODE_FACE"

\* the mode after a LongPress(B) found in mode m (lines 772-777)
NextMode(m) ==
    IF m = "MODE_FACE" THEN "MODE_STATUS"
    ELSE IF m = "MODE_STATUS" THEN "MODE_AGENTS"
    ELSE m

C12_LongPressACyclesPersona ==
    (Has(emitted, "LongA") /\ hist.longIn["A"] = "MODE_AGENTS") =>
        currentAgentIndex = (hist.atCall.soul[5] + 1) % NUM_AGENTS

\* the applyCare() calls among the first i entries of hist.order
CaresUpTo(i) == Cardinality({ k \in 1..i : hist.order[k] = "applyCare" })

\* applyCare(amount) was called and the request `what` was sent right after
\* it if the link was up when handleButtons() was entered, and not at all if
\* it was down
CaredThenReported(amount, what) ==
    /\ \E i \in DOMAIN hist.order :
          /\ hist.order[i] = "applyCare"
          /\ hist.cared[CaresUpTo(i)] = amount
          /\ hist.atCall.link =>
                i + 1 \in DOMAIN hist.order /\ hist.order[i + 1] = what
    /\ Has(hist.order, what) <=> hist.atCall.link
    /\ \A j \in DOMAIN hist.order :
          hist.order[j] = what => j > 1 /\ hist.order[j - 1] = "applyCare"

FaceShorts == { b \in Btn : Has(emitted, "Short" \o b) /\ hist.shortIn[b] = "MODE_FACE" }

\* C13.  A handleButtons() call in which a ShortPress finds MODE_FACE calls
\* applyCare(1.5) for A and applyCare(0.5) for B, link up or down, backend
\* reachable or not: interactions grows by one per such press and currentExpr
\* on return is the expression of the mood.  The care report is sent exactly
\* when the link is up, after the applyCare() call it reports.
C13_ShortPressCaresThenReports ==
    /\ "A" \in FaceShorts => CaredThenReported(LOVE_CARE, "care:love")
    /\ "B" \in FaceShorts => CaredThenReported(POKE_CARE, "care:poke")
    /\ FaceShorts # {} =>
          /\ hist.atReturn.soul[3] = hist.atCall.soul[3] + Cardinality(FaceShorts)
          /\ hist.atReturn.expr = stateToExpression(getState(hist.atReturn.soul[1]))

\* a ShortPress(B) in MODE_FACE with the link down
C13_PokeOffline ==
    /\ FaceShorts = {"B"} /\ ~hist.atCall.link /\ sent = << >>
    /\ interactions = 2

\* a ShortPress(A) in MODE_FACE with the link up and the backend not answering
C13_LoveReportedUnanswered ==
    /\ FaceShorts = {"A"} /\ hist.atCall.link /\ ~villageOnline
    /\ hist.order = << "applyCare", "care:love" >>

\* C14.  A loop() iteration calls connectWiFi() only if it starts with
\* wifiConnected false and the call starts more than WIFI_RETRY_MS after the
\* start of the previous call (lastWifiAttempt); after a call wifiConnected
\* tells whether it succeeded; and as long as loop() keeps being called with
\* wifiConnected false, connectWiFi() is called again.
C14_RetryAfterInterval ==
    /\ [][(pc = "loop" /\ hist'.wifi # "") =>
            /\ ~wifiConnected
            /\ lastWifiAttempt' - lastWifiAttempt > WIFI_RETRY_MS]_vars
    /\ [](hist.wifi # "" => (wifiConnected <=> hist.wifi = "connected"))
    /\ (pc = "loop" /\ ~wifiConnected) ~> (hist.wifi # "" \/ ~Running)

\* the attempt of setup() failed and so did the first retry of loop(); the
\* second retry has just connected
C14_SecondRetryConnected ==
    pc = "loop" /\ hist.wifi = "connected" /\ lastWifiAttempt > 2 * WIFI_RETRY_MS

\* C15 as stated: a step in which connectWiFi() succeeded, in setup() or in
\* loop(), also sent the status request.
C15_StatusPollAfterConnect == hist.wifi = "connected" => Has(sent, "status")

\* a chat request was answered with 200 in the last step
ChatSucceeded == hist.chat.code = HTTP_OK

\* C16.  After a loop() iteration whose chat request was answered with 200:
\* applyCare() ran once after the request, with the reply's care_value (0.5
\* if absent), so interactions is one more than after handleButtons();
\* currentExpr is the expression the reply's hint names (EXPR_NEUTRAL if the
\* hint is absent or not a name stringToExpression() knows); villageOnline is
\* true.
C16_ChatReplyApplied ==
    ChatSucceeded =>
        LET n     == Len(hist.order)
            care  == IF hist.chat.care = << >> THEN DEFAULT_CARE ELSE hist.chat.care[1]
            hint  == IF hist.chat.expr = << >> THEN "NEUTRAL" ELSE hist.chat.expr[1]
        IN  /\ n >= 2 /\ hist.order[n - 1] = "chat" /\ hist.order[n] = "applyCare"
            /\ Cardinality({ i \in 1..n : hist.order[i] = "chat" }) = 1
            /\ hist.cared[Len(hist.cared)] = care
            /\ interactions = hist.atReturn.soul[3] + 1
            /\ currentExpr = stringToExpression(hint)
            /\ villageOnline

\* a reply without care_value and with a hint that names no expression: the
\* face is neutral although the mood would show something else
C16_UnknownHintShown ==
    /\ ChatSucceeded /\ hist.chat.care = << >> /\ hist.chat.expr = << "GRUMPY" >>
    /\ currentExpr = "EXPR_NEUTRAL"
    /\ stateToExpression(getState(E)) # "EXPR_NEUTRAL"

\* a chat was attempted in the last step and did not succeed
ChatFailed == hist.chat.text # "" /\ ~ChatSucceeded

\* C17.  After a loop() iteration whose chat attempt did not succeed (no
\* request because wifiConnected is false, no answer within the timeout, or
\* an answer other than 200) villageOnline is false and the text returned is
\* one of the two fallback texts.  In the link-down case chatWithVillage()
\* returns without writing villageOnline; the flag is false then because it
\* is set only by requests, which need wifiConnected, and wifiConnected is
\* never cleared once set.
C17_FailedChatMarksOffline ==
    /\ villageOnline => wifiConnected
    /\ ChatFailed =>
          /\ ~villageOnline
          /\ hist.chat.text = IF Has(sent, "chat") THEN "Village sleeping..."
                                                   ELSE "Offline mode..."
          /\ messageText = hist.chat.text

\* the backend answered the status request of setup() and then answered the
\* chat with 500
C17_ChatRefusedAfterStatus ==
    ChatFailed /\ hist.chat.code = 500 /\ toolsAvailable > 0 /\ ~villageOnline

\* a chat attempt with the link down
C17_ChatOffline ==
    ChatFailed /\ ~wifiConnected /\ messageText = "Offline mode..."

\* E, E_floor, interactions, totalCare
Vitals == << E, E_floor, interactions, totalCare >>

SyncFailed == hist.sync.made /\ hist.sync.code # HTTP_OK

\* C19.  A syncWithVillage() call that fails (wifiConnected false, no answer,
\* or an answer other than 200) returns with E, E_floor, interactions,
\* totalCare, birthTime, currentAgentIndex and villageOnline as they were,
\* without a saveState() call and /soul.json untouched, and with the message
\* "No WiFi" (no request sent) or "Sync failed" set for 2000 ms.
C19_FailedSyncChangesNothing ==
    SyncFailed =>
        /\ hist.sync.kept
        /\ hist.sync.online[2] = hist.sync.online[1]
        /\ ~hist.sync.saved
        /\ hist.sync.msg = IF Has(sent, "sync") THEN "Sync failed" ELSE "No WiFi"
        /\ hist.sync.lasts = 2000

\* a sync request that got no answer, with the backend known to be reachable
C19_SyncUnansweredWhileOnline ==
    SyncFailed /\ Has(sent, "sync") /\ villageOnline /\ messageText = "Sync failed"

\* C20 as stated: a syncWithVillage() call answered with 200 calls
\* saveState() and sets villageOnline.
C20_SyncSuccessSaves ==
    (hist.sync.made /\ hist.sync.code = HTTP_OK) =>
        hist.sync.saved /\ hist.sync.online[2]

\* C21.  A sendCare() call returns with every global but villageOnline as it
\* was; villageOnline keeps its value when the request got no 200 and is
\* true when it got one.
C21_CareReportKeepsState ==
    \A b \in Btn :
        hist.report[b].made =>
            /\ hist.report[b].kept
            /\ hist.report[b].online[2] =
                  (hist.report[b].code = HTTP_OK \/ hist.report[b].online[1])

\* the care report of a ShortPress(A) got no answer while villageOnline was
\* true
C21_ReportUnansweredWhileOnline ==
    /\ hist.report["A"].made /\ hist.report["A"].code # HTTP_OK
    /\ hist.report["A"].online = << TRUE, TRUE >>

\* C22.  In every reachable state, those after setup() has loaded /soul.json
\* included, 0 <= currentAgentIndex < NUM_AGENTS.  (loadState() takes
\* doc["agent"] as it is; the file is the one saveState() wrote.)
C22_AgentIndexValid == currentAgentIndex \in 0..(NUM_AGENTS - 1)

\* setup() has loaded the snapshot written before the power cycle
C22_SnapshotLoaded ==
    /\ hist.boots = 1 /\ pc = "loop" /\ file.exists
    /\ currentAgentIndex = file.agent /\ interactions = file.interactions
    /\ interactions > 0

\* the state getState() returned in the last Classify step
Classified(i) == hist.probe # << >> /\ hist.probe[1] = "getState" /\ hist.probe[i] \in 0..6

\* C23.  getState() returns one of the seven states, in the order PROTECTING
\* < GUARDED < TENDER < WARM < FLOURISHING < RADIANT < TRANSCENDENT; of two
\* energies the lower never gets the higher state; an energy equal to the
\* i-th threshold gets the state below it and the next larger energy the
\* state above (E = 1.0: GUARDED, the next value: TENDER).
C23_GetStateMonotone ==
    (hist.probe # << >> /\ hist.probe[1] = "getState") =>
        /\ Classified(2) /\ Classified(3)
        /\ hist.probe[2] <= hist.probe[3]
        /\ \A i \in DOMAIN Ladder :
              /\ E = Ladder[i] => hist.probe[3] = i - 1
              /\ E = Ladder[i] + 1 => hist.probe[3] = i
        /\ E = E_THRESHOLD_TENDER => hist.probe[3] = STATE_GUARDED
        /\ E = E_THRESHOLD_TENDER + 1 => hist.probe[3] = STATE_TENDER

\* E = 1.0 classified as GUARDED, with a floor below 0.5 classified as
\* PROTECTING
C23_BoundaryInLowerTier ==
    /\ E = E_THRESHOLD_TENDER /\ E_floor < E_THRESHOLD_GUARDED
    /\ hist.probe = << "getState", STATE_PROTECTING, STATE_GUARDED >>

\* the fields of a SoulState
SoulFields == {"energy", "floor", "peak", "interactions", "totalCare", "birthTime", "agentIndex"}

\* the field of the program and the key of /soul.json that hold a SoulState field
Holds(field) ==
    CASE field = "energy" -> << "E", "E" >>
      [] field = "floor" -> << "E_floor", "E_floor" >>
      [] field = "interactions" -> << "interactions", "interactions" >>
      [] field = "totalCare" -> << "totalCare", "total_care" >>
      [] field = "birthTime" -> << "birthTime", "birth_time" >>
      [] field = "agentIndex" -> << "currentAgentIndex", "agent" >>
      [] OTHER -> << "peak", "peak" >>

RoundTripped == hist.probe # << >> /\ hist.probe[1] = "roundTrip"

\* C24.  saveState() followed by loadState() restores every SoulState field
\* (energy, floor, peak, interactions, totalCare, birthTime, agentIndex) to
\* the value it had: each field is written to the snapshot and is the same
\* after loading as before saving.
C24_RoundTripRestoresAll ==
    RoundTripped =>
        \A f \in SoulFields :
            /\ Holds(f)[2] \in hist.probe[4]
            /\ Holds(f)[1] \in DOMAIN hist.probe[3]
            /\ hist.probe[3][Holds(f)[1]] = hist.probe[2][Holds(f)[1]]

\* the six fields the program has come back as they were (there is no peak)
C24_RoundTripRestoresSix ==
    RoundTripped =>
        /\ hist.probe[3] = hist.probe[2]
        /\ Persisted(Cur) = hist.probe[2]
        /\ hist.probe[4] = {"exists", "E", "E_floor", "interactions", "total_care",
                            "birth_time", "agent"}

\* a round trip of a soul that differs from the initial one in all six fields
C24_RoundTripDone ==
    /\ RoundTripped
    /\ E = E_THRESHOLD_WARM + 1 /\ E_floor = E_THRESHOLD_TENDER - 1
    /\ interactions = 7 /\ totalCare = 105 /\ birthTime = 4750
    /\ currentAgentIndex = NUM_AGENTS - 1

\* the step made one applyCare(1.5f), on a soul with E = 1.0 and E_floor = 1.0
CaredOnceFromInitial ==
    /\ hist.cared = << LOVE_CARE >>
    /\ hist.atCall.soul # << >>
    /\ hist.atCall.soul[1] = INITIAL_E
    /\ hist.atCall.soul[2] = INITIAL_FLOOR

\* C25.  From E = 1.0 and E_floor = 1.0 one applyCare(1.5) adds
\* 0.0088 * 1.5 * 1.0 to E: E is 1.0132 to four places, E_floor is 1.0000013
\* to seven places, interactions is one more than before, getState() is
\* STATE_TENDER and the face is the one of that state.
C25_ScenarioA ==
    CaredOnceFromInitial =>
        /\ E - INITIAL_E = (88 * (FP \div 10000) * LOVE_CARE) \div CU
        /\ Abs(E - 10132 * (FP \div 10000)) < (FP \div 10000) \div 2
        /\ E_floor = 10000013
        /\ interactions = hist.atCall.soul[3] + 1
        /\ getState(E) = STATE_TENDER
        /\ currentExpr = stateToExpression(STATE_TENDER)

\* the first short press of A after power-on has been handled
C25_FirstLove ==
    /\ CaredOnceFromInitial
    /\ interactions = 1 /\ totalCare = LOVE_CARE /\ Has(emitted, "ShortA")

\* C26.  hist.atCall.t is `now` of the last loop() iteration.  (1) A message
\* on screen has met no iteration that started after its expiry: such an
\* iteration clears it, text and expiry, unless it shows a newer one, whose
\* expiry is later than its `now`.  (2) A step of loop() that ends with the
\* expiry reset started an iteration after the expiry of the message it
\* found, and has emptied the text.  (3) While loop() keeps being called
\* every message goes: it is cleared, or replaced and the newer one cleared.
C26_MessageClearedOnExpiry ==
    /\ []((pc = "loop" /\ messageExpires > 0) =>
            (messageText # "" /\ hist.atCall.t <= messageExpires))
    /\ [](messageExpires = 0 => messageText = "")
    /\ [][(pc = "loop" /\ pc' = "loop" /\ messageExpires > 0 /\ messageExpires' # messageExpires) =>
            \/ messageExpires' > hist'.atCall.t /\ messageText' # ""
            \/ messageExpires' = 0 /\ messageText' = "" /\ hist'.atCall.t > messageExpires]_vars
    /\ (pc = "loop" /\ messageExpires > 0) ~> (messageExpires = 0 \/ ~Running)

\* "Love!" was shown by the only short press so far, and is gone again
C26_LoveCleared ==
    /\ pc = "loop" /\ hist.boots = 0 /\ hist.nlines = 0
    /\ interactions = 1 /\ totalCare = LOVE_CARE /\ hist.combos = 0
    /\ messageText = "" /\ messageExpires = 0
    /\ hist.atCall.t > hist.edge["A"] + 1500

\* a call of the last step failed: connectWiFi(), or a request that was sent
\* and got no 200
TransportFailed ==
    \/ hist.wifi = "failed"
    \/ Has(sent, "chat") /\ ChatFailed
    \/ Has(sent, "sync") /\ SyncFailed
    \/ \E b \in Btn : hist.report[b].made /\ hist.report[b].code # HTTP_OK
    \/ Has(sent, "status") /\ ~villageOnline

\* the waits of setup() and of one loop() iteration, each at its longest
StepBudget ==
    SETUP_DELAY_MS + WAKE_ANIM_MS + WIFI_SETTLE_MS + WIFI_GIVEUP_MS
        + STATUS_TIMEOUT_MS + SYNC_TIMEOUT_MS + 2 * CARE_TIMEOUT_MS
        + LOVE_DELAY_MS + API_TIMEOUT_MS + LOOP_DELAY_MS

\* C27.  A step of setup() or loop() in which connectWiFi() or a request
\* failed has returned, within the sum of the timeouts, to where loop() is
\* called next; and loop() is then called again: a later iteration, which
\* begins with handleButtons(), starts from a state without that failure
\* (or the time bound of the model is reached).
C27_FailureDoesNotHalt ==
    /\ [](TransportFailed =>
            /\ pc = "loop"
            /\ clock - hist.atCall.t <= StepBudget
            /\ (hist.wifi = "failed" => ~wifiConnected))
    /\ TransportFailed ~> (~TransportFailed \/ ~Running)

\* connectWiFi() failed in setup(); a short press of A has been handled since
C27_PressAfterFailedConnect ==
    /\ pc = "loop" /\ hist.boots = 0 /\ ~wifiConnected /\ lastWifiAttempt > 0
    /\ Has(emitted, "ShortA") /\ interactions = 1
    /\ hist.atCall.t > lastWifiAttempt + WIFI_GIVEUP_MS

\* the connection indicator of renderFaceScreen() (line 555)
Glyph == IF wifiConnected THEN (IF villageOnline THEN "V" ELSE "W") ELSE "X"

\* C28.  villageOnline is true only while wifiConnected is true, so the
\* connection indicator, "X" without link, "W" with link and "V" with the
\* backend reachable, shows "V" exactly when villageOnline is true: there is
\* no state with the backend flag set and the link flag clear.
C28_BackendOnlyWithLink ==
    /\ ~(villageOnline /\ ~wifiConnected)
    /\ Glyph = "V" <=> villageOnline
    /\ Glyph = "X" <=> ~wifiConnected

\* a poke report, answered with 200, has turned the indicator from "W" to "V"
C28_PokeReachedBackend ==
    /\ pc = "loop" /\ Glyph = "V"
    /\ hist.report["B"].made /\ hist.report["B"].online = << FALSE, TRUE >>

\* C29.  Between power-on and power-off: once wifiConnected is true no step
\* of loop() makes it false, whatever the requests of the step come to, and
\* no step of loop() calls connectWiFi() again (lastWifiAttempt stays as it
\* is and no attempt is recorded).
C29_LinkFlagMonotone ==
    [][(pc = "loop" /\ pc' = "loop" /\ wifiConnected) =>
            /\ wifiConnected'
            /\ lastWifiAttempt' = lastWifiAttempt
            /\ hist'.wifi = ""]_vars

\* connected in setup(), the status request answered; a later chat request
\* failed, the retry interval has passed since, and the link flag is still up
C29_LinkKeptAfterFailure ==
    /\ pc = "loop" /\ hist.boots = 0 /\ wifiConnected
    /\ toolsAvailable > 0 /\ ~villageOnline
    /\ hist.atCall.t > lastWifiAttempt + WIFI_RETRY_MS

\* the modes that have a screen of their own in the render switch
ScreenModes == {"MODE_FACE", "MODE_STATUS", "MODE_AGENTS"}

\* C30.  currentMode is always MODE_FACE, MODE_STATUS or MODE_AGENTS, never
\* MODE_CHAT or MODE_SYNC.  After setup() and after every loop() iteration it
\* is what handleButtons() left, so the timers, the reconnection and the
\* serial chat do not touch it; a handleButtons() call that syncs returns
\* with the mode it was called with; and a step that changes the mode is a
\* loop() iteration whose handleButtons() call emitted a button event.
C30_ModeOnlyByButtons ==
    /\ [](currentMode \in AppMode /\ currentMode \in ScreenModes)
    /\ [](pc = "loop" => currentMode = hist.atReturn.mode)
    /\ [](hist.sync.made => hist.atReturn.mode = hist.atCall.mode)
    /\ [][(pc' = "loop" /\ currentMode' # currentMode) =>
            /\ pc = "loop"
            /\ hist'.atCall.mode = currentMode
            /\ emitted' # << >>]_vars

\* in MODE_STATUS, reached by a long press of B, a chat request has been
\* answered and the link has come up in loop()
C30_ChatInStatusMode ==
    /\ pc = "loop" /\ currentMode = "MODE_STATUS"
    /\ ChatSucceeded /\ Has(sent, "chat")

\* C31.  In a run that starts without /soul.json, whatever care values the
\* chat replies carry (negative and very large ones included) and across
\* power cycles that restore the program's own snapshot, E_floor >= 1.0 and
\* E >= 1.0; so getState() never returns STATE_PROTECTING, and returns
\* STATE_GUARDED only while E is exactly 1.0.
C31_NeverBelowInitial ==
    /\ E_floor >= INITIAL_FLOOR
    /\ E >= INITIAL_E
    /\ getState(E) # STATE_PROTECTING
    /\ getState(E) = STATE_GUARDED => E = E_THRESHOLD_TENDER
    /\ file.exists => /\ FloatOf(file.E, FP) >= INITIAL_E
                      /\ FloatOf(file.E_floor, FP) >= INITIAL_FLOOR

\* a chat reply with care_value -1.0 has been applied to the initial soul,
\* which is still at E = 1.0 and STATE_GUARDED
C31_NegativeCareAtInitial ==
    /\ hist.boots = 0 /\ Has(sent, "chat") /\ hist.cared = << -10 >>
    /\ E = INITIAL_E /\ E_floor = INITIAL_FLOOR /\ interactions = 1
    /\ getState(E) = STATE_GUARDED

=============================================================================
